---- MODULE Spec2Model ----
(***************************************************************************)
(* Model of luma-diagnostics: the probes of tests.py and diagnostics.py,   *)
(* diagnostics.run_with_config and the wizard's run_tests.                  *)
(*                                                                         *)
(* Texts (error messages, info strings) are sequences of words, so that    *)
(* the wizard's `"timeout" in str(...).lower()` is a search for the word   *)
(* "timeout" among the lower-cased words of the text.  Header values and   *)
(* bodies are sequences of characters / bytes.  A probe result is a record *)
(* with exactly the keys of the Python dict the probe builds; reading a    *)
(* key that is not in DOMAIN is Python's KeyError.                         *)
(***************************************************************************)
EXTENDS Integers, Sequences, FiniteSets, TLC

VARIABLES
    entry,      \* which entry point runs: "wizard", "run_with_config", "probe",
                \* "test_rate_limit", "tests.main", "cli.main"
    pc,         \* position inside the running function
    args,       \* arguments and ambient inputs of the run
    idx,        \* index of the next entry of the test sequence / list literal
    results,    \* the `results` list of run_tests / run_with_config
    pending,    \* run_with_config: the list literal under construction (l.111-117)
    calls,      \* log of probe invocations: name, timeout, attempt, except branch
    offered,    \* indices of `calls` after which the retry prompt was shown
    retried,    \* indices of `results` a retry assigned to (results[-1] = result)
    confirmed,  \* indices of `calls` after which the user accepted the retry
    rate,       \* test_rate_limit: results["responses"] and the replies received
    files,      \* the files written by run_with_config
    fault,      \* exception that left the function, <<>> when none
    runs,       \* number of times the wizard flow was entered
    probeIn,    \* single probe call: the probe and the remote behaviour drawn
    probeOut    \* single probe call: what the caller got back

vars == <<entry, pc, args, idx, results, pending, calls, offered, retried,
          confirmed, rate,
          files, fault, runs, probeIn, probeOut>>

----------------------------------------------------------------------------
(* Bounds *)

\* how many times the wizard flow may be re-entered ("run another test")
MaxRuns == 2

----------------------------------------------------------------------------
(* Program constants *)

\* run_with_config(..., timeout: int = 10)
DefaultTimeout == 10
\* wizard test_sequence: test_image_headers(image_url, timeout=30)
WizardTimeout == 30

None == "None"

URL1 == "https://example.com/a.jpg"
URL2 == "https://example.com/timeout.jpg"
URLS == {URL1, URL2}

\* the words of a URL, at the granularity the substring search needs
UrlWords(u) == IF u = URL2 THEN <<"https://example.com/", "timeout", ".jpg">>
               ELSE <<u>>

----------------------------------------------------------------------------
(* Texts *)

\* str.lower() on one word
LowerWord(w) ==
    CASE w = "Timeout" -> "timeout"
      [] w = "Request" -> "request"
      [] w = "Gateway" -> "gateway"
      [] w = "Server"  -> "server"
      [] w = "Client"  -> "client"
      [] w = "Error:"  -> "error:"
      [] w = "Not"     -> "not"
      [] w = "Found"   -> "found"
      [] w = "Connection" -> "connection"
      [] w = "SSL"     -> "ssl"
      [] OTHER -> w

Lower(text) == [i \in 1..Len(text) |-> LowerWord(text[i])]

\* `needle in text` for a one-word needle
Contains(text, needle) == \E i \in 1..Len(text) : text[i] = needle

\* wizard.py l.363: "timeout" in str(error).lower()
MentionsTimeout(text) == Contains(Lower(text), "timeout")

\* f"Request timed out after {timeout} seconds"
TimeoutText(timeout) ==
    <<"Request", "timed", "out", "after", ToString(timeout), "seconds">>

\* reason phrase of a status code
Reason(status) ==
    CASE status = 404 -> <<"Not", "Found">>
      [] status = 504 -> <<"Gateway", "Timeout">>
      [] OTHER -> <<"OK">>

\* requests.Response.raise_for_status: the text of the HTTPError
HTTPErrorText(status, url) ==
    <<ToString(status)>>
    \o (IF status < 500 THEN <<"Client", "Error:">> ELSE <<"Server", "Error:">>)
    \o Reason(status) \o <<"for", "url:">> \o UrlWords(url)

\* str(e) of the exceptions requests raises
ExcText(exc) ==
    CASE exc = "Timeout"         -> <<"Read", "timed", "out.">>
      [] exc = "ConnectionError" -> <<"Connection", "refused">>
      [] exc = "SSLError"        -> <<"certificate", "verify", "failed">>
      [] OTHER -> <<exc>>

\* str(KeyError('status'))
KeyErrorText(key) == <<"'" \o key \o "'">>

----------------------------------------------------------------------------
(* Remote behaviour: what one HTTP request of a probe meets *)

Statuses == {200, 204, 404, 504}

\* Content-Length header values, as characters; <<"-">> stands for absent
ClAbsent == <<"-">>
ContentLengths == {ClAbsent, <<"1", "0", "2", "4">>, <<"a", "b", "c">>, <<>>}

JPEG    == <<255, 216, 255, 224, 0, 255, 217>>
SOIOnly == <<255, 216, 255, 224, 0, 0, 0>>
NoThird == <<255, 216, 0, 0, 0, 255, 217>>
PNG     == <<137, 80, 78, 71, 13, 10, 26>>
Tiny    == <<255, 216, 255, 217>>
Bodies  == {JPEG, SOIOnly, NoThird, PNG, Tiny, <<>>}

Histories == {<<>>, <<301>>, <<301, 302>>}

\* Content-Type header values; "-" stands for absent
ContentTypes == {"image/jpeg", "-"}

Answered ==
    [exc : {"none"}, status : Statuses, ctype : ContentTypes,
     clen : ContentLengths, body : Bodies, history : Histories]

Raised ==
    [exc : {"Timeout", "ConnectionError", "SSLError"}, status : {0},
     ctype : {"-"}, clen : {ClAbsent}, body : {<<>>}, history : {<<>>}]

Responses == Answered \cup Raised

\* the part of a response a probe that reads only the status looks at
Plain(r) == r.ctype = "-" /\ r.clen = ClAbsent /\ r.body = <<>> /\ r.history = <<>>

StatusResponses == {r \in Responses : Plain(r)}
HeaderResponses == {r \in Responses : r.body = <<>> /\ r.history = <<>>}
BodyResponses ==
    {r \in Responses : r.ctype = "-" /\ r.clen = ClAbsent /\ r.history = <<>>}
RedirectResponses ==
    {r \in Responses : r.ctype = "-" /\ r.clen = ClAbsent /\ r.body = <<>>
                        /\ r.status = 200}
        \cup Raised

----------------------------------------------------------------------------
(* What a call hands back to its caller *)

\* return value; `via` records the branch of the probe that built it
Ret(v, via) == [ret |-> "value", val |-> v, via |-> via]
\* an exception leaves the probe
Raise(exc, text) == [ret |-> "raise", exc |-> exc, text |-> text, via |-> "raise"]
\* the function falls off its end: the caller gets None
RetNone == [ret |-> "None", via |-> "None"]

----------------------------------------------------------------------------
(* int() *)

Digits == {"0", "1", "2", "3", "4", "5", "6", "7", "8", "9"}

DigitVal(c) ==
    CASE c = "0" -> 0 [] c = "1" -> 1 [] c = "2" -> 2 [] c = "3" -> 3
      [] c = "4" -> 4 [] c = "5" -> 5 [] c = "6" -> 6 [] c = "7" -> 7
      [] c = "8" -> 8 [] OTHER -> 9

\* int(s) succeeds on a non-empty string of digits
IsNumeric(s) == Len(s) > 0 /\ \A i \in 1..Len(s) : s[i] \in Digits

RECURSIVE IntOf(_)
IntOf(s) == IF s = <<>> THEN 0
            ELSE 10 * IntOf(SubSeq(s, 1, Len(s) - 1)) + DigitVal(s[Len(s)])

\* str(ValueError) of int(s)
ValueErrorText(s) ==
    <<"invalid", "literal", "for", "int()", "with", "base", "10:">> \o s

----------------------------------------------------------------------------
(* diagnostics.py probes *)

\* test_image_headers with a timeout branch that records no error text
test_image_headers_silent_timeout(url, timeout, r) ==
    IF r.exc = "Timeout" THEN
        Ret([test_name |-> "Headers and Content", status |-> "failed",
             details |-> [url |-> url]],
            "Timeout")
    ELSE IF r.exc # "none" THEN
        Ret([test_name |-> "Headers and Content", status |-> "failed",
             details |-> [error |-> ExcText(r.exc), url |-> url]],
            "RequestException")
    ELSE IF r.status >= 400 THEN
        Ret([test_name |-> "Headers and Content", status |-> "failed",
             details |-> [error |-> HTTPErrorText(r.status, url), url |-> url]],
            "RequestException")
    ELSE IF r.clen # ClAbsent /\ ~IsNumeric(r.clen) THEN
        Raise("ValueError", ValueErrorText(r.clen))
    ELSE
        Ret([test_name |-> "Headers and Content", status |-> "completed",
             details |-> [url |-> url,
                          content_type |-> IF r.ctype = "-" THEN "unknown"
                                           ELSE r.ctype,
                          content_length_header |->
                              IF r.clen = ClAbsent THEN 0 ELSE IntOf(r.clen),
                          content_length_actual |-> Len(r.body),
                          info |-> <<>>]],
            "completed")

\* diagnostics.test_image_headers(url, timeout): one HEAD request
test_image_headers(url, timeout, r) ==
    IF r.exc = "Timeout" THEN
        Ret([test_name |-> "Headers and Content", status |-> "failed",
             details |-> [error |-> TimeoutText(timeout), url |-> url]],
            "Timeout")
    ELSE IF r.exc # "none" THEN
        Ret([test_name |-> "Headers and Content", status |-> "failed",
             details |-> [error |-> ExcText(r.exc), url |-> url]],
            "RequestException")
    ELSE IF r.status >= 400 THEN
        Ret([test_name |-> "Headers and Content", status |-> "failed",
             details |-> [error |-> HTTPErrorText(r.status, url), url |-> url]],
            "RequestException")
    ELSE IF r.clen # ClAbsent /\ ~IsNumeric(r.clen) THEN
        Raise("ValueError", ValueErrorText(r.clen))
    ELSE
        Ret([test_name |-> "Headers and Content", status |-> "completed",
             details |-> [url |-> url,
                          content_type |-> IF r.ctype = "-" THEN "unknown"
                                           ELSE r.ctype,
                          content_length_header |->
                              IF r.clen = ClAbsent THEN 0 ELSE IntOf(r.clen),
                          content_length_actual |-> Len(r.body),
                          info |-> <<>>]],
            "completed")

\* bytes.startswith(b'\xff\xd8\xff')
StartsWithSOI3(body) ==
    Len(body) >= 3 /\ body[1] = 255 /\ body[2] = 216 /\ body[3] = 255

\* diagnostics.test_image_validity(url, timeout): one GET request
test_image_validity(url, timeout, r) ==
    IF r.exc = "Timeout" THEN
        Ret([test_name |-> "Image Validity", status |-> "failed",
             details |-> [error |-> TimeoutText(timeout), url |-> url]],
            "Timeout")
    ELSE IF r.exc # "none" THEN
        Ret([test_name |-> "Image Validity", status |-> "failed",
             details |-> [error |-> ExcText(r.exc), url |-> url]],
            "RequestException")
    ELSE IF r.status >= 400 THEN
        Ret([test_name |-> "Image Validity", status |-> "failed",
             details |-> [error |-> HTTPErrorText(r.status, url), url |-> url]],
            "RequestException")
    ELSE
        Ret([test_name |-> "Image Validity", status |-> "completed",
             details |-> [url |-> url,
                          is_jpeg_signature |-> StartsWithSOI3(r.body),
                          info |-> <<>>]],
            "completed")

----------------------------------------------------------------------------
(* tests.py probes *)

\* f"...{resp.status_code}" and f"...{chain_statuses}"
StatusWords(codes) == [i \in 1..Len(codes) |-> ToString(codes[i])]

\* test_public_access that goes on to the GET after a failed DNS resolution
test_public_access_get_anyway(url, dns, r) ==
    IF r.exc # "none" THEN
        Ret([test_name |-> "Public Access", url |-> url,
             dns_resolved |-> dns, reachable |-> FALSE,
             info |-> <<"HTTP", "GET", "failed:">> \o ExcText(r.exc)],
            "except")
    ELSE
        Ret([test_name |-> "Public Access", url |-> url,
             dns_resolved |-> dns, reachable |-> (r.status = 200),
             info |-> IF r.status = 200 THEN <<>>
                      ELSE <<"Received", "status">> \o StatusWords(<<r.status>>)],
            "get")

\* tests.test_public_access(url): DNS resolution, then one GET
\* dns: whether socket.gethostbyname returns
test_public_access(url, dns, r) ==
    IF ~dns THEN
        Ret([test_name |-> "Public Access", url |-> url,
             dns_resolved |-> FALSE, reachable |-> FALSE,
             info |-> <<"DNS", "resolution", "failed:", "Name", "or",
                        "service", "not", "known">>],
            "dns")
    ELSE IF r.exc # "none" THEN
        Ret([test_name |-> "Public Access", url |-> url,
             dns_resolved |-> TRUE, reachable |-> FALSE,
             info |-> <<"HTTP", "GET", "failed:">> \o ExcText(r.exc)],
            "except")
    ELSE
        Ret([test_name |-> "Public Access", url |-> url,
             dns_resolved |-> TRUE, reachable |-> (r.status = 200),
             info |-> IF r.status = 200 THEN <<>>
                      ELSE <<"Received", "status">> \o StatusWords(<<r.status>>)],
            "get")

\* tests.test_cert_validation(url): one GET with verify=ca_bundle
test_cert_validation(url, r) ==
    IF r.exc = "SSLError" THEN
        Ret([test_name |-> "Cert Validation", url |-> url, cert_valid |-> FALSE,
             info |-> <<"SSL", "Error:">> \o ExcText(r.exc)], "SSLError")
    ELSE IF r.exc # "none" THEN
        Ret([test_name |-> "Cert Validation", url |-> url, cert_valid |-> FALSE,
             info |-> <<"Connection", "Error:">> \o ExcText(r.exc)], "except")
    ELSE
        Ret([test_name |-> "Cert Validation", url |-> url, cert_valid |-> TRUE,
             info |-> <<"Success.", "Status", "code:">>
                      \o StatusWords(<<r.status>>)], "get")

\* where a redirect chain ends
RedirectTarget == "https://cdn.example.com/a.jpg"

\* tests.test_redirect(url): one GET following redirects
test_redirect(url, r) ==
    IF r.exc # "none" THEN
        Ret([test_name |-> "Redirect Check", url |-> url,
             is_redirecting |-> FALSE, final_url |-> None,
             info |-> <<"Redirect", "test", "error:">> \o ExcText(r.exc)],
            "except")
    ELSE
        Ret([test_name |-> "Redirect Check", url |-> url,
             is_redirecting |-> (Len(r.history) > 0),
             final_url |-> IF Len(r.history) > 0 THEN RedirectTarget ELSE url,
             info |-> IF Len(r.history) > 0
                      THEN <<"Redirect", "chain:">> \o StatusWords(r.history)
                      ELSE <<>>],
            "get")

\* tests.py l.190: more than four bytes, FF D8 first and FF D9 last
HasSOIAndEOI(data) ==
    /\ Len(data) > 4
    /\ data[1] = 255 /\ data[2] = 216
    /\ data[Len(data) - 1] = 255 /\ data[Len(data)] = 217

\* tests.test_image_validity(url): one GET, no raise_for_status
tests_test_image_validity(url, r) ==
    IF r.exc # "none" THEN
        Ret([test_name |-> "Image Validity", url |-> url,
             is_jpeg_signature |-> FALSE,
             info |-> <<"Could", "not", "retrieve", "or", "parse", "image:">>
                      \o ExcText(r.exc)],
            "except")
    ELSE
        Ret([test_name |-> "Image Validity", url |-> url,
             is_jpeg_signature |-> HasSOIAndEOI(r.body),
             info |-> IF HasSOIAndEOI(r.body) THEN <<>>
                      ELSE <<"Does", "not", "match", "JPEG", "signature.">>],
            "get")

\* what PIL's Image.open makes of a body: its format, or None when it raises
ImageFormat(body) ==
    IF body = JPEG THEN "JPEG" ELSE IF body = PNG THEN "PNG" ELSE None

\* tests.test_image_metadata(url): one GET without timeout, then Image.open
\* pil: whether `from PIL import Image` succeeds
test_image_metadata(url, pil, r) ==
    IF ~pil THEN
        Ret([test_name |-> "Image Metadata", url |-> url,
             error |-> <<"No", "module", "named", "'PIL'">>,
             info |-> <<"Failed", "to", "analyze", "image", "metadata">>],
            "except")
    ELSE IF r.exc # "none" THEN
        Ret([test_name |-> "Image Metadata", url |-> url,
             error |-> ExcText(r.exc),
             info |-> <<"Failed", "to", "analyze", "image", "metadata">>],
            "except")
    ELSE IF r.status # 200 THEN
        RetNone
    ELSE IF ImageFormat(r.body) = None THEN
        Ret([test_name |-> "Image Metadata", url |-> url,
             error |-> <<"cannot", "identify", "image", "file">>,
             info |-> <<"Failed", "to", "analyze", "image", "metadata">>],
            "except")
    ELSE
        Ret([test_name |-> "Image Metadata", url |-> url,
             format |-> ImageFormat(r.body), mode |-> "RGB",
             size |-> <<1, 1>>,
             info |-> <<"Image", "is", ImageFormat(r.body)>>],
            "get")

\* the marker scan of test_advanced_image_analysis (l.712-724) from byte
\* pos: "yes", "no", "IndexError" (a one-byte marker read) or "loop" (the
\* seek returns to the marker just read)
RECURSIVE ProgressiveFrom(_, _)
ProgressiveFrom(body, pos) ==
    IF pos > Len(body) THEN "no"
    ELSE IF body[pos] # 255 THEN "no"
    ELSE IF pos + 1 > Len(body) THEN "IndexError"
    ELSE IF body[pos + 1] = 194 THEN "yes"
    ELSE IF body[pos + 1] = 218 THEN "no"
    ELSE IF pos + 2 > Len(body) THEN "loop"
    ELSE IF pos + 3 > Len(body)
         THEN ProgressiveFrom(body, pos + 1 + body[pos + 2])
    ELSE ProgressiveFrom(body, pos + 2 + (body[pos + 2] * 256 + body[pos + 3]))

\* tests.test_advanced_image_analysis(url): one GET without timeout
test_advanced_image_analysis(url, pil, r) ==
    IF ~pil THEN
        Ret([test_name |-> "Advanced Image Analysis", url |-> url,
             error |-> <<"No", "module", "named", "'PIL'">>,
             info |-> <<"Failed", "to", "perform", "advanced", "image",
                        "analysis">>], "except")
    ELSE IF r.exc # "none" THEN
        Ret([test_name |-> "Advanced Image Analysis", url |-> url,
             error |-> ExcText(r.exc),
             info |-> <<"Failed", "to", "perform", "advanced", "image",
                        "analysis">>], "except")
    ELSE IF r.status # 200 THEN
        RetNone
    ELSE IF ImageFormat(r.body) = None THEN
        Ret([test_name |-> "Advanced Image Analysis", url |-> url,
             error |-> <<"cannot", "identify", "image", "file">>,
             info |-> <<"Failed", "to", "perform", "advanced", "image",
                        "analysis">>], "except")
    ELSE IF ImageFormat(r.body) = "JPEG"
            /\ ProgressiveFrom(r.body, 1) = "IndexError" THEN
        Ret([test_name |-> "Advanced Image Analysis", url |-> url,
             error |-> <<"index", "out", "of", "range">>,
             info |-> <<"Failed", "to", "perform", "advanced", "image",
                        "analysis">>], "except")
    ELSE IF ImageFormat(r.body) = "JPEG"
            /\ ProgressiveFrom(r.body, 1) = "loop" THEN
        [ret |-> "never", via |-> "loop"]
    ELSE
        Ret([test_name |-> "Advanced Image Analysis", url |-> url,
             progressive_jpeg |-> (ImageFormat(r.body) = "JPEG"
                                   /\ ProgressiveFrom(r.body, 1) = "yes"),
             color_space |-> "No ICC profile found",
             \* 1x1 image: theoretical_size 3 against len(img_data) >= 7
             compression_quality |-> IF ImageFormat(r.body) = "JPEG"
                                     THEN "High" ELSE "Unknown",
             info |-> <<"Progressive:", "Quality:">>],
            "get")

\* tests.test_api_auth(api_url, bearer_token): one GET without timeout
test_api_auth(api_url, bearer_token, r) ==
    IF bearer_token = None THEN
        Ret([test_name |-> "API Authentication", url |-> api_url,
             info |-> <<"No", "bearer", "token", "provided">>], "no_token")
    ELSE IF r.exc # "none" THEN
        Ret([test_name |-> "API Authentication", url |-> api_url,
             error |-> ExcText(r.exc),
             info |-> <<"Failed", "to", "verify", "authentication">>],
            "except")
    ELSE
        Ret([test_name |-> "API Authentication", url |-> api_url,
             status_code |-> r.status, authenticated |-> (r.status # 401),
             info |-> <<"Authentication">>
                      \o (IF r.status # 401 THEN <<"successful">>
                          ELSE <<"failed">>)],
            "get")

----------------------------------------------------------------------------
(* The remote behaviours a run draws from, one representative per branch *)

RunStatusResponses ==
    {r \in StatusResponses : r.exc \in {"none", "ConnectionError", "SSLError"}
                             /\ r.status \in {0, 200, 204, 404}}
RunCertResponses ==
    {r \in StatusResponses : r.exc \in {"none", "ConnectionError", "SSLError"}
                             /\ r.status \in {0, 200}}
RunRedirectResponses ==
    {r \in RedirectResponses : r.exc \in {"none", "ConnectionError"}
                               /\ r.history # <<301>>}
RunHeaderResponses ==
    {r \in HeaderResponses :
        /\ r.exc \in {"none", "Timeout", "ConnectionError"}
        /\ r.status \in {0, 200, 404, 504}
        /\ r.status \in {404, 504} => (r.ctype = "-" /\ r.clen = ClAbsent)
        /\ r.status = 200 =>
              \/ r.ctype = "-" /\ r.clen = ClAbsent
              \/ r.ctype = "image/jpeg" /\ r.clen \notin {ClAbsent, <<>>}}
RunBodyResponses ==
    {r \in BodyResponses :
        /\ r.exc \in {"none", "Timeout"}
        /\ r.status \in {0, 200, 504}
        /\ r.status = 504 => r.body = <<>>
        /\ r.status = 200 => r.body \in {JPEG, PNG}}

----------------------------------------------------------------------------
(* The plan: the five probes of wizard.run_tests l.338-344 and of        *)
(* run_with_config l.111-117, in order                                     *)

PlanLen == 5

\* the names the wizard's test_sequence gives its entries
SequenceName(i) ==
    CASE i = 1 -> "Public Access"
      [] i = 2 -> "Certificate Validation"
      [] i = 3 -> "Redirect Check"
      [] i = 4 -> "Headers and Content"
      [] OTHER -> "Image Validity"

\* the test_name the i-th probe puts in its result
ProbeName(i) == IF i = 2 THEN "Cert Validation" ELSE SequenceName(i)

\* the timeout the i-th probe's request carries, given the caller's timeout
ProbeTimeout(i, timeout) == IF i <= 3 THEN 10 ELSE timeout

\* Invoke with a Cert Validation that reuses a DNS failure Public Access met
Invoke_shared_dns_failure(i, url, timeout) ==
    CASE i = 1 -> {test_public_access(url, d, r) :
                      d \in BOOLEAN, r \in RunStatusResponses}
      [] i = 2 -> IF \E j \in DOMAIN calls :
                        calls[j].probe = 1 /\ calls[j].via = "dns"
                  THEN {Ret([test_name |-> "Cert Validation", url |-> url,
                             cert_valid |-> FALSE,
                             info |-> <<"DNS", "resolution", "failed">>],
                            "except")}
                  ELSE {test_cert_validation(url, r) : r \in RunCertResponses}
      [] i = 3 -> {test_redirect(url, r) : r \in RunRedirectResponses}
      [] i = 4 -> {test_image_headers(url, timeout, r) :
                      r \in RunHeaderResponses}
      [] OTHER -> {test_image_validity(url, timeout, r) :
                      r \in RunBodyResponses}

\* calling the i-th probe of the plan: every outcome the remote side allows
Invoke(i, url, timeout) ==
    CASE i = 1 -> {test_public_access(url, d, r) :
                      d \in BOOLEAN, r \in RunStatusResponses}
      [] i = 2 -> {test_cert_validation(url, r) : r \in RunCertResponses}
      [] i = 3 -> {test_redirect(url, r) : r \in RunRedirectResponses}
      [] i = 4 -> {test_image_headers(url, timeout, r) :
                      r \in RunHeaderResponses}
      [] OTHER -> {test_image_validity(url, timeout, r) :
                      r \in RunBodyResponses}

\* one entry of the invocation log
Call(i, timeout, attempt, o) ==
    [probe |-> i, timeout |-> ProbeTimeout(i, timeout), attempt |-> attempt,
     via |-> o.via, out |-> o]

----------------------------------------------------------------------------
(* wizard.py: main and run_tests *)

ApiKeys == {None, "luma_key"}

\* the entry the wizard records when an exception leaves the inner try
\* (wizard.py l.395-399)
ExceptionEntry(name, text) ==
    [test_name |-> name, status |-> "failed", details |-> [error |-> text]]

\* result.get("details", {}).get("error", "")
ErrorOf(result) ==
    IF "details" \in DOMAIN result /\ "error" \in DOMAIN result.details
    THEN result.details.error ELSE <<>>

\* wizard.py l.363: is the retry prompt shown for this failed result
RetryEligible(result) == MentionsTimeout(ErrorOf(result))

\* wizard.py l.369: the probes the accepted retry re-invokes
Retryable(name) == name \in {"Headers and Content", "Image Validity"}

\* wizard.py l.342-343 and l.370: the timeout of the (re-)invoked test_func
RetryTimeout(attempt) == WizardTimeout

\* end of one iteration of the for loop (l.401-406)
NextIteration ==
    /\ idx' = idx + 1
    /\ pc' = IF idx = PlanLen THEN "summary" ELSE "loop"

\* wizard.main l.468-500: the prompts are answered and run_tests starts
WizMain ==
    /\ entry = "wizard" /\ pc = "main"
    /\ runs < MaxRuns
    /\ \E u \in URLS, k \in ApiKeys :
          args' = [image_url |-> u, api_key |-> k, cancelled |-> None]
    /\ runs' = runs + 1
    /\ pc' = "loop" /\ idx' = 1
    /\ results' = <<>> /\ calls' = <<>> /\ offered' = {} /\ retried' = {}
    /\ confirmed' = {}
    /\ UNCHANGED <<rate, entry, pending, files, fault, probeIn, probeOut>>

\* the prompts of main, in the order main asks them
Prompts == {"image_url", "api_key", "test_type", "params"}

\* questionary.prompt(questions) when the user cancels it: the library
\* catches the KeyboardInterrupt, prints its message and returns {}, which
\* is not None; the code goes on and reads the answer it expects. The
\* outcome is the key whose lookup raises KeyError, or <<>> when the empty
\* answers are read with .get (get_api_key without a stored key, l.141-145)
CancelOutcome(prompt, stored_key) ==
    CASE prompt = "image_url" -> <<"url_source">>
      [] prompt = "api_key" ->
            IF stored_key THEN <<"key_source">> ELSE <<>>
      [] prompt = "test_type" -> <<"test_type">>
      [] OTHER -> <<"param_source">>

\* WizCancel with prompts that return None when cancelled
WizCancel_returns ==
    /\ entry = "wizard" /\ pc = "main"
    /\ runs < MaxRuns
    /\ runs' = runs + 1
    /\ results' = <<>> /\ calls' = <<>> /\ offered' = {} /\ retried' = {}
    /\ confirmed' = {}
    /\ \E prompt \in Prompts :
        /\ args' = [image_url |-> None, api_key |-> None, cancelled |-> prompt]
        /\ pc' = "done" /\ idx' = idx
    /\ UNCHANGED <<rate, entry, pending, files, fault, probeIn, probeOut>>

\* main l.468-509 with one prompt cancelled: a KeyError leaves the prompt's
\* function and is caught by `except Exception` of main (l.504-507), which
\* asks "Would you like to try again?"; the cancelled API-key prompt without a
\* stored key returns None, the value of "no API key", and main goes on to
\* run_tests once the later prompts are answered
WizCancel ==
    /\ entry = "wizard" /\ pc = "main"
    /\ runs < MaxRuns
    /\ runs' = runs + 1
    /\ results' = <<>> /\ calls' = <<>> /\ offered' = {} /\ retried' = {}
    /\ confirmed' = {}
    /\ \E prompt \in Prompts, stored_key \in BOOLEAN, u \in URLS :
        IF CancelOutcome(prompt, stored_key) = <<>>
        THEN /\ args' = [image_url |-> u, api_key |-> None,
                         cancelled |-> prompt]
             /\ pc' = "loop" /\ idx' = 1
        ELSE /\ args' = [image_url |-> None, api_key |-> None,
                         cancelled |-> prompt]
             /\ pc' = "try_again" /\ idx' = idx
    /\ UNCHANGED <<rate, entry, pending, files, fault, probeIn, probeOut>>

\* one iteration of the loop up to the retry prompt (l.349-364, l.379-406)
WizProbe ==
    /\ entry = "wizard" /\ pc = "loop" /\ idx <= PlanLen
    /\ \E o \in Invoke(idx, args.image_url, RetryTimeout(1)) :
        /\ calls' = Append(calls, Call(idx, RetryTimeout(1), 1, o))
        /\ IF o.ret = "raise" THEN
              \* test_func() raised: l.392-399
              /\ results' = Append(results,
                                   ExceptionEntry(SequenceName(idx), o.text))
              /\ offered' = offered
              /\ NextIteration
           ELSE IF "status" \notin DOMAIN o.val THEN
              \* appended at l.355, then result["status"] raises KeyError
              /\ results' = Append(Append(results, o.val),
                                   ExceptionEntry(SequenceName(idx),
                                                  KeyErrorText("status")))
              /\ offered' = offered
              /\ NextIteration
           ELSE IF o.val.status = "failed" /\ "details" \notin DOMAIN o.val THEN
              \* l.360: result['details'] raises KeyError
              /\ results' = Append(Append(results, o.val),
                                   ExceptionEntry(SequenceName(idx),
                                                  KeyErrorText("details")))
              /\ offered' = offered
              /\ NextIteration
           ELSE IF o.val.status = "failed" /\ RetryEligible(o.val) THEN
              /\ results' = Append(results, o.val)
              /\ offered' = offered \cup {Len(calls) + 1}
              /\ pc' = "confirm" /\ idx' = idx
           ELSE
              /\ results' = Append(results, o.val)
              /\ offered' = offered
              /\ NextIteration
    /\ UNCHANGED <<rate, entry, args, pending, retried, confirmed, files, fault, runs,
                   probeIn, probeOut>>

\* WizRetry with a retry that keeps the original entry when it fails again
WizRetry_keep_original ==
    /\ entry = "wizard" /\ pc = "confirm"
    /\ confirmed' = confirmed \cup {Len(calls)}
    /\ IF Retryable(SequenceName(idx)) THEN
          \E o \in Invoke(idx, args.image_url, RetryTimeout(2)) :
            /\ calls' = Append(calls, Call(idx, RetryTimeout(2), 2, o))
            /\ IF o.ret = "raise" THEN
                  /\ results' = Append(results,
                                   ExceptionEntry(SequenceName(idx), o.text))
                  /\ retried' = retried
               ELSE IF o.val.status = "failed" THEN
                  /\ results' = results
                  /\ retried' = retried
               ELSE
                  /\ results' = [results EXCEPT ![Len(results)] = o.val]
                  /\ retried' = retried \cup {Len(results)}
       ELSE UNCHANGED <<calls, results, retried>>
    /\ NextIteration
    /\ UNCHANGED <<rate, entry, args, pending, offered, files, fault, runs,
                   probeIn, probeOut>>

\* WizRetry with a retry whose timeout failure brings the prompt up again
WizRetry_prompts_again ==
    /\ entry = "wizard" /\ pc = "confirm"
    /\ confirmed' = confirmed \cup {Len(calls)}
    /\ IF Retryable(SequenceName(idx)) THEN
          \E o \in Invoke(idx, args.image_url, RetryTimeout(2)) :
            /\ calls' = Append(calls, Call(idx, RetryTimeout(2), 2, o))
            /\ IF o.ret = "raise" THEN
                  /\ results' = Append(results,
                                   ExceptionEntry(SequenceName(idx), o.text))
                  /\ retried' = retried
                  /\ offered' = offered
                  /\ NextIteration
               ELSE
                  /\ results' = [results EXCEPT ![Len(results)] = o.val]
                  /\ retried' = retried \cup {Len(results)}
                  /\ IF o.val.status = "failed" /\ RetryEligible(o.val)
                     THEN /\ offered' = offered \cup {Len(calls) + 1}
                          /\ pc' = "confirm" /\ idx' = idx
                     ELSE /\ offered' = offered
                          /\ NextIteration
       ELSE /\ UNCHANGED <<calls, results, retried, offered>>
            /\ NextIteration
    /\ UNCHANGED <<rate, entry, args, pending, files, fault, runs,
                   probeIn, probeOut>>

\* the user confirms the retry prompt (l.364-378)
WizRetry ==
    /\ entry = "wizard" /\ pc = "confirm"
    /\ confirmed' = confirmed \cup {Len(calls)}
    /\ IF Retryable(SequenceName(idx)) THEN
          \E o \in Invoke(idx, args.image_url, RetryTimeout(2)) :
            /\ calls' = Append(calls, Call(idx, RetryTimeout(2), 2, o))
            /\ IF o.ret = "raise" THEN
                  /\ results' = Append(results,
                                   ExceptionEntry(SequenceName(idx), o.text))
                  /\ retried' = retried
               ELSE
                  /\ results' = [results EXCEPT ![Len(results)] = o.val]
                  /\ retried' = retried \cup {Len(results)}
       ELSE UNCHANGED <<calls, results, retried>>
    /\ NextIteration
    /\ UNCHANGED <<rate, entry, args, pending, offered, files, fault, runs,
                   probeIn, probeOut>>

\* WizDecline with a probe that is run again although the user declined
WizDecline_retries_anyway ==
    /\ entry = "wizard" /\ pc = "confirm"
    /\ \E o \in Invoke(idx, args.image_url, RetryTimeout(2)) :
        /\ calls' = Append(calls, Call(idx, RetryTimeout(2), 2, o))
        /\ results' = IF o.ret = "raise" THEN results
                      ELSE [results EXCEPT ![Len(results)] = o.val]
    /\ NextIteration
    /\ UNCHANGED <<rate, entry, args, pending, offered, retried, confirmed,
                   files, fault, runs, probeIn, probeOut>>

\* the user declines or cancels the retry prompt
WizDecline ==
    /\ entry = "wizard" /\ pc = "confirm"
    /\ NextIteration
    /\ UNCHANGED <<rate, entry, args, results, pending, calls, offered, retried, confirmed,
                   files, fault, runs, probeIn, probeOut>>

\* the summary loop (l.408-455): result["status"] is read for every result
SummaryRenders == \A i \in 1..Len(results) : "status" \in DOMAIN results[i]

WizSummary ==
    /\ entry = "wizard" /\ pc = "summary"
    /\ pc' = IF SummaryRenders THEN "another" ELSE "try_again"
    /\ UNCHANGED <<rate, entry, args, idx, results, pending, calls, offered,
                   retried, confirmed, files, fault, runs, probeIn, probeOut>>

\* "Would you like to run another test?" (l.457-460) and
\* "Would you like to try again?" (l.462-466): yes re-enters main()
WizAgain ==
    /\ entry = "wizard" /\ pc \in {"another", "try_again"}
    /\ runs < MaxRuns
    /\ pc' = "main"
    /\ UNCHANGED <<rate, entry, args, idx, results, pending, calls, offered,
                   retried, confirmed, files, fault, runs, probeIn, probeOut>>

\* WizQuit with a declined prompt that starts the flow over all the same
WizQuit_reenters ==
    /\ entry = "wizard" /\ pc \in {"another", "try_again"}
    /\ pc' = "main"
    /\ UNCHANGED <<rate, entry, args, idx, results, pending, calls, offered,
                   retried, confirmed, files, fault, runs, probeIn, probeOut>>

WizQuit ==
    /\ entry = "wizard" /\ pc \in {"another", "try_again"}
    /\ pc' = "done"
    /\ UNCHANGED <<rate, entry, args, idx, results, pending, calls, offered,
                   retried, confirmed, files, fault, runs, probeIn, probeOut>>

----------------------------------------------------------------------------
(* diagnostics.run_with_config *)

\* arguments, configuration file and environment of a call; cfg says whether
\* config_path is absent ("none"), cannot be read ("unreadable") or is a
\* JSON file holding cfg_url and cfg_key
ConfigArgs ==
    {a \in [case_id : {None, "case1"}, cfg : {"none", "unreadable", "file"},
            cfg_url : {None, URL1}, cfg_key : ApiKeys,
            image_url : {None, URL1, URL2}, env_url : {None, URL1}] :
        \/ a.cfg = "none" /\ a.cfg_url = None /\ a.cfg_key = None
           /\ a.case_id = None
           /\ (a.image_url = None \/ a.env_url = None)
           /\ a.image_url # URL2
        \/ a.cfg = "unreadable" /\ a.cfg_url = None /\ a.cfg_key = None
           /\ a.case_id = None /\ a.image_url = URL1 /\ a.env_url = None
        \/ a.cfg = "file" /\ a.cfg_key # None /\ a.env_url = None
           /\ \/ a.cfg_url = URL1 /\ a.image_url = None /\ a.case_id = "case1"
              \/ a.cfg_url = None /\ a.image_url = URL2 /\ a.case_id = None
              \/ a.cfg_url = None /\ a.image_url = None /\ a.case_id = None}

\* l.98-107: config.get("LUMA_API_KEY")
ConfigApiKey(a) == IF a.cfg = "file" THEN a.cfg_key ELSE None

\* l.102-107: config.get("TEST_IMAGE_URL", os.environ.get("TEST_IMAGE_URL"))
ConfigImageUrl(a) ==
    IF a.image_url # None THEN a.image_url
    ELSE IF a.cfg = "file" /\ a.cfg_url # None THEN a.cfg_url
    ELSE a.env_url

\* api_tests.run_api_tests(api_key, test_image_url): the list it returns
ApiResults ==
    { <<[test_name |-> "API Authentication", status |-> "completed",
         details |-> [authenticated |-> TRUE]]>>,
      <<[test_name |-> "API Authentication", status |-> "failed",
         details |-> [error |-> <<"401", "Unauthorized">>]]>> }

\* generation_tests.run_generation_tests(api_key, url, output_dir)
GenerationOutcomes ==
    { Ret([generated |-> TRUE], "completed"),
      Raise("Exception", <<"Generation", "request", "failed">>) }

\* l.139-152: the entry recorded for the generation tests
GenerationEntry(o) ==
    IF o.ret = "raise"
    THEN [test_name |-> "Generation Tests", status |-> "failed",
          details |-> [error |-> o.text,
                       info |-> <<"Failed", "to", "run", "generation",
                                  "tests">>]]
    ELSE [test_name |-> "Generation Tests", status |-> "completed",
          details |-> o.val]

\* l.178-186: the section of the text file written for one result
TextSection(result) ==
    IF "details" \in DOMAIN result
    THEN [test |-> result.test_name, lines |-> result.details]
    ELSE [test |-> result.test_name]

\* l.189-198: the entry naming the files written
OutputFilesEntry ==
    [test_name |-> "Output Files", status |-> "completed",
     details |-> [output_files |-> <<"json_file", "text_file">>]]

NoFiles == [written |-> FALSE]

\* l.97-107: load the configuration
CfgLoad ==
    /\ entry = "run_with_config" /\ pc = "start"
    /\ IF args.cfg = "unreadable"
       THEN /\ pc' = "raised"
            /\ fault' = <<"No", "such", "file", "or", "directory">>
       ELSE /\ pc' = IF ConfigImageUrl(args) # None THEN "basic" ELSE "api"
            /\ fault' = fault
    /\ UNCHANGED <<rate, entry, args, idx, results, pending, calls, offered,
                   retried, confirmed, files, runs, probeIn, probeOut>>

\* l.110-117: the next element of the list literal is evaluated; after the
\* last one the list is handed to results.extend
CfgProbe ==
    /\ entry = "run_with_config" /\ pc = "basic" /\ idx <= PlanLen
    /\ \E o \in Invoke(idx, ConfigImageUrl(args), DefaultTimeout) :
        /\ calls' = Append(calls, Call(idx, DefaultTimeout, 1, o))
        /\ IF o.ret = "raise" THEN
              /\ pc' = "raised" /\ fault' = o.text
              /\ UNCHANGED <<idx, pending, results>>
           ELSE
              /\ fault' = fault
              /\ idx' = idx + 1
              /\ IF idx = PlanLen
                 THEN /\ results' = results \o Append(pending, o.val)
                      /\ pending' = <<>>
                      /\ pc' = "api"
                 ELSE /\ pending' = Append(pending, o.val)
                      /\ results' = results
                      /\ pc' = pc
    /\ UNCHANGED <<rate, entry, args, offered, retried, confirmed, files, runs,
                   probeIn, probeOut>>

\* l.119-122: the API tests, when a key is configured
CfgApiTests ==
    /\ entry = "run_with_config" /\ pc = "api"
    /\ IF ConfigApiKey(args) # None
       THEN \E rs \in ApiResults : results' = results \o rs
       ELSE results' = results
    /\ pc' = "generation"
    /\ UNCHANGED <<rate, entry, args, idx, pending, calls, offered, retried, confirmed,
                   files, fault, runs, probeIn, probeOut>>

\* l.131-152: the generation tests, when a key is configured
CfgGeneration ==
    /\ entry = "run_with_config" /\ pc = "generation"
    /\ IF ConfigApiKey(args) # None
       THEN \E o \in GenerationOutcomes :
               results' = Append(results, GenerationEntry(o))
       ELSE results' = results
    /\ pc' = "save"
    /\ UNCHANGED <<rate, entry, args, idx, pending, calls, offered, retried, confirmed,
                   files, fault, runs, probeIn, probeOut>>

\* l.154-186: both files are written from `results`
CfgSave ==
    /\ entry = "run_with_config" /\ pc = "save"
    /\ files' = [written |-> TRUE,
                 json |-> [timestamp |-> "ts", case_id |-> args.case_id,
                           results |-> results],
                 text |-> [i \in 1..Len(results) |-> TextSection(results[i])]]
    /\ pc' = "saved"
    /\ UNCHANGED <<rate, entry, args, idx, results, pending, calls, offered,
                   retried, confirmed, fault, runs, probeIn, probeOut>>

\* CfgReturn that appends the "Output Files" entry twice
CfgReturn_appends_twice ==
    /\ entry = "run_with_config" /\ pc = "saved"
    /\ results' = Append(Append(results, OutputFilesEntry), OutputFilesEntry)
    /\ pc' = "returned"
    /\ UNCHANGED <<rate, entry, args, idx, pending, calls, offered, retried,
                   confirmed, files, fault, runs, probeIn, probeOut>>

\* l.188-200: the "Output Files" entry is appended and results returned
CfgReturn ==
    /\ entry = "run_with_config" /\ pc = "saved"
    /\ results' = Append(results, OutputFilesEntry)
    /\ pc' = "returned"
    /\ UNCHANGED <<rate, entry, args, idx, pending, calls, offered, retried, confirmed,
                   files, fault, runs, probeIn, probeOut>>

----------------------------------------------------------------------------
(* One probe called on its own *)

API_URL == "https://api.lumalabs.ai/dream-machine/v1/generations"

\* a server that accepts the connection and never answers
Silent ==
    [exc |-> "silent", status |-> 0, ctype |-> "-", clen |-> ClAbsent,
     body |-> <<>>, history |-> <<>>]

ProbeNames ==
    {"test_public_access", "test_cert_validation", "test_redirect",
     "test_image_headers", "test_image_validity", "tests.test_image_validity",
     "test_image_metadata", "test_advanced_image_analysis", "test_api_auth"}

\* the timeout= argument of the probe's request: <<>> when it passes none
RequestTimeout(probe) ==
    IF probe \in {"test_image_metadata", "test_advanced_image_analysis",
                  "test_api_auth"}
    THEN <<>> ELSE <<DefaultTimeout>>

\* whether the call gets as far as its request
RequestIssued(c) ==
    CASE c.probe = "test_public_access" -> c.flag
      [] c.probe \in {"test_image_metadata", "test_advanced_image_analysis"}
            -> c.flag
      [] c.probe = "test_api_auth" -> c.token # None
      [] OTHER -> TRUE

\* what requests hands to the probe: silence ends in a Timeout exception
\* once the timeout has run out
Arrives(r) == IF r.exc = "silent" THEN [r EXCEPT !.exc = "Timeout"] ELSE r

\* the request blocks for ever: the call does not return
Hang == [ret |-> "never", via |-> "blocked"]

\* probe, its flag (DNS resolves / PIL importable), bearer token and response
ProbeCalls ==
    {[probe |-> "test_public_access", flag |-> d, token |-> None, resp |-> r] :
        d \in BOOLEAN, r \in StatusResponses}
    \cup {[probe |-> p, flag |-> TRUE, token |-> None, resp |-> r] :
        p \in {"test_cert_validation"}, r \in StatusResponses}
    \cup {[probe |-> "test_redirect", flag |-> TRUE, token |-> None, resp |-> r] :
        r \in RedirectResponses}
    \cup {[probe |-> "test_image_headers", flag |-> TRUE, token |-> None,
           resp |-> r] : r \in HeaderResponses}
    \cup {[probe |-> "test_image_validity", flag |-> TRUE, token |-> None,
           resp |-> r] : r \in BodyResponses}
    \cup {[probe |-> "tests.test_image_validity", flag |-> TRUE,
           token |-> None, resp |-> r] : r \in BodyResponses}
    \cup {[probe |-> p, flag |-> f, token |-> None, resp |-> r] :
        p \in {"test_image_metadata", "test_advanced_image_analysis"},
        f \in BOOLEAN, r \in BodyResponses}
    \cup {[probe |-> "test_api_auth", flag |-> TRUE, token |-> k, resp |-> r] :
        k \in ApiKeys, r \in StatusResponses}
    \cup {[probe |-> p, flag |-> f, token |-> k, resp |-> Silent] :
        p \in ProbeNames, f \in BOOLEAN, k \in ApiKeys}

\* the body of the probe, run on what its request gives it
Dispatch(c) ==
    CASE c.probe = "test_public_access" ->
            test_public_access(URL1, c.flag, c.resp)
      [] c.probe = "test_cert_validation" -> test_cert_validation(URL1, c.resp)
      [] c.probe = "test_redirect" -> test_redirect(URL1, c.resp)
      [] c.probe = "test_image_headers" ->
            test_image_headers(URL1, DefaultTimeout, c.resp)
      [] c.probe = "test_image_validity" ->
            test_image_validity(URL1, DefaultTimeout, c.resp)
      [] c.probe = "tests.test_image_validity" ->
            tests_test_image_validity(URL1, c.resp)
      [] c.probe = "test_image_metadata" ->
            test_image_metadata(URL1, c.flag, c.resp)
      [] c.probe = "test_advanced_image_analysis" ->
            test_advanced_image_analysis(URL1, c.flag, c.resp)
      [] OTHER -> test_api_auth(API_URL, c.token, c.resp)

\* the call itself
CallProbe(c) ==
    IF c.resp.exc = "silent" /\ RequestIssued(c)
       /\ RequestTimeout(c.probe) = <<>>
    THEN Hang
    ELSE Dispatch([c EXCEPT !.resp = Arrives(c.resp)])

Pending == [ret |-> "pending"]
NoCall == [probe |-> None]

ProbeCall ==
    /\ entry = "probe" /\ probeOut = Pending
    /\ probeOut' = CallProbe(probeIn)
    /\ UNCHANGED <<rate, entry, pc, args, idx, results, pending, calls, offered,
                   retried, confirmed, files, fault, runs, probeIn>>

----------------------------------------------------------------------------
(* tests.test_rate_limit: `attempts` POST requests, one per loop iteration *)

\* the largest `attempts` argument drawn
MaxAttempts == 5

\* what one requests.post does: raises, or answers with a status and a body
\* that is JSON or not
RateReplies ==
    {[exc |-> "none", status |-> 201, json |-> TRUE],
     [exc |-> "none", status |-> 429, json |-> TRUE],
     [exc |-> "none", status |-> 502, json |-> FALSE],
     [exc |-> "ConnectionError", status |-> 0, json |-> FALSE]}

\* attempt_info after the try of l.277-285; status_code is <<>> for None
AttemptInfo(i, r) ==
    IF r.exc # "none" THEN
        [attempt |-> i, status_code |-> <<>>,
         body |-> <<"Connection/Request", "Error:">> \o ExcText(r.exc)]
    ELSE
        [attempt |-> i, status_code |-> <<r.status>>,
         body |-> IF r.json THEN <<"json">> \o StatusWords(<<r.status>>)
                  ELSE <<"text">> \o StatusWords(<<r.status>>)]

NoRate == [responses |-> <<>>, seen |-> <<>>]

\* RateAttempt with a loop that an exception of requests.post ends
RateAttempt_stops_on_exception ==
    /\ entry = "test_rate_limit" /\ pc = "loop" /\ idx <= args.attempts
    /\ \E r \in RateReplies :
        /\ rate' = [responses |-> Append(rate.responses, AttemptInfo(idx, r)),
                    seen |-> Append(rate.seen, r)]
        /\ idx' = IF r.exc # "none" THEN args.attempts + 1 ELSE idx + 1
    /\ UNCHANGED <<entry, pc, args, results, pending, calls, offered, retried,
                   confirmed, files, fault, runs, probeIn, probeOut>>

\* one iteration of `for i in range(attempts)` (l.275-287)
RateAttempt ==
    /\ entry = "test_rate_limit" /\ pc = "loop" /\ idx <= args.attempts
    /\ \E r \in RateReplies :
        rate' = [responses |-> Append(rate.responses, AttemptInfo(idx, r)),
                 seen |-> Append(rate.seen, r)]
    /\ idx' = idx + 1
    /\ UNCHANGED <<entry, pc, args, results, pending, calls, offered, retried,
                   confirmed, files, fault, runs, probeIn, probeOut>>

\* the loop is exhausted: return results (l.288)
RateReturn ==
    /\ entry = "test_rate_limit" /\ pc = "loop" /\ idx > args.attempts
    /\ probeOut' = Ret([test_name |-> "Rate Limit Test", endpoint |-> API_URL,
                        num_attempts |-> args.attempts,
                        responses |-> rate.responses, info |-> <<>>],
                       "return")
    /\ pc' = "returned"
    /\ UNCHANGED <<rate, entry, args, idx, results, pending, calls, offered,
                   retried, confirmed, files, fault, runs, probeIn>>

----------------------------------------------------------------------------
(* tests.main: the legacy runner *)

\* --case argument, whether cases/active/<case>.env exists, and the
\* TEST_IMAGE_URL of the environment after load_dotenv
LegacyArgs ==
    {[case |-> c, case_file |-> f, env_url |-> u] :
        c \in {None, "case-1"}, f \in BOOLEAN, u \in {None, URL1}}

SystemExit(code) == <<"SystemExit:", ToString(code)>>

\* str(NameError) for a global name that is bound nowhere in the module
NameErrorText(name) == <<"name", name, "is", "not", "defined">>

\* l.933-979: load_case_config, the TEST_IMAGE_URL check, get_output_paths
\* and the assignment of main's local CONFIG
LegLoad ==
    /\ entry = "tests.main" /\ pc = "start"
    /\ IF (args.case # None /\ ~args.case_file) \/ args.env_url = None
       THEN pc' = "exit" /\ fault' = SystemExit(1)
       ELSE pc' = "run" /\ fault' = fault
    /\ UNCHANGED <<rate, entry, args, idx, results, pending, calls, offered,
                   retried, confirmed, files, runs, probeIn, probeOut>>

\* l.981: run_diagnostics() reads the global CONFIG at l.841; the module
\* binds no such global, main's CONFIG being a local of main
LegRunDiagnostics ==
    /\ entry = "tests.main" /\ pc = "run"
    /\ pc' = "raised" /\ fault' = NameErrorText("'CONFIG'")
    /\ UNCHANGED <<rate, entry, args, idx, results, pending, calls, offered,
                   retried, confirmed, files, runs, probeIn, probeOut>>

----------------------------------------------------------------------------
(* cli.py: main, validate_api_key, validate_image, run_tests *)

\* API keys by what validate_api_key reads of them: the first five
\* characters and the length; <<>> stands for no key (None or "")
GoodKey   == <<[prefix |-> "luma_", length |-> 40]>>
ShortKey  == <<[prefix |-> "luma_", length |-> 31]>>
AlienKey  == <<[prefix |-> "sk_li", length |-> 40]>>
CliKeys   == {<<>>, GoodKey, ShortKey, AlienKey}

\* image files by what validate_image reads of them; format "-" is a file
\* Image.open cannot read; <<>> stands for no --image
NoImage      == <<>>
GoodImage    == <<[exists |-> TRUE, format |-> "JPEG", width |-> 640,
                   height |-> 480]>>
MissingImage == <<[exists |-> FALSE, format |-> "-", width |-> 0,
                   height |-> 0]>>
GifImage     == <<[exists |-> TRUE, format |-> "GIF", width |-> 640,
                   height |-> 480]>>
HugeImage    == <<[exists |-> TRUE, format |-> "PNG", width |-> 8192,
                   height |-> 4096]>>
BrokenImage  == <<[exists |-> TRUE, format |-> "-", width |-> 0,
                   height |-> 0]>>
CliImages ==
    {NoImage, GoodImage, MissingImage, GifImage, HugeImage, BrokenImage}

\* the command line and the LUMA_API_KEY of the environment
CliArgs ==
    [test : BOOLEAN, wizard : BOOLEAN, case : {None, "case-1"},
     arg_key : CliKeys, env_key : {<<>>, GoodKey}, image : CliImages]

\* l.114: args.api_key or os.getenv("LUMA_API_KEY")
CliApiKey(a) == IF a.arg_key # <<>> THEN a.arg_key ELSE a.env_key

\* validate_api_key(api_key): the error message, <<>> for None
validate_api_key(api_key) ==
    IF api_key = <<>> THEN <<"API", "key", "is", "required">>
    ELSE IF api_key[1].prefix # "luma_"
    THEN <<"Invalid", "API", "key", "format">>
    ELSE IF api_key[1].length < 32 THEN <<"API", "key", "too", "short">>
    ELSE <<>>

\* validate_image(image_path): the error message, <<>> for None
validate_image(image_path) ==
    LET img == image_path[1] IN
    IF ~img.exists THEN <<"Image", "file", "does", "not", "exist">>
    ELSE IF img.format = "-"
    THEN <<"Invalid", "image", "file:", "cannot", "identify", "image", "file">>
    ELSE IF img.format \notin {"JPEG", "PNG"}
    THEN <<"Image", "must", "be", "JPEG", "or", "PNG", "format">>
    ELSE IF img.width * img.height > 4096 * 4096
    THEN <<"Image", "dimensions", "too", "large">>
    ELSE <<>>

\* CliDispatch with a handler that turns every exit into exit code 1
CliDispatch_exit_caught(a) ==
    IF a.test THEN
        IF CliApiKey(a) = <<>> THEN [pc |-> "exit", code |-> 1]
        ELSE IF validate_api_key(CliApiKey(a)) # <<>>
        THEN [pc |-> "exit", code |-> 1]
        ELSE IF a.image # <<>> /\ validate_image(a.image) # <<>>
        THEN [pc |-> "exit", code |-> 1]
        ELSE [pc |-> "run_tests", code |-> 0]
    ELSE IF a.wizard THEN [pc |-> "wizard", code |-> 0]
    ELSE [pc |-> "exit", code |-> 1]

\* CliDispatch without the validation of --image
CliDispatch_image_unchecked(a) ==
    IF a.test THEN
        IF CliApiKey(a) = <<>> THEN [pc |-> "exit", code |-> 1]
        ELSE IF validate_api_key(CliApiKey(a)) # <<>>
        THEN [pc |-> "exit", code |-> 1]
        ELSE [pc |-> "run_tests", code |-> 0]
    ELSE IF a.wizard THEN [pc |-> "wizard", code |-> 0]
    ELSE IF a.case # None THEN [pc |-> "exit", code |-> 1]
    ELSE [pc |-> "exit", code |-> 2]

\* main l.101-154 up to the call of run_tests or wizard.main, or the exit:
\* sys.exit raises SystemExit, which `except Exception` (l.152) lets through;
\* diagnostics.run_case (l.147) is not an attribute of diagnostics, and the
\* AttributeError is caught at l.152
CliDispatch(a) ==
    IF a.test THEN
        IF CliApiKey(a) = <<>> THEN [pc |-> "exit", code |-> 1]
        ELSE IF validate_api_key(CliApiKey(a)) # <<>>
        THEN [pc |-> "exit", code |-> 1]
        ELSE IF a.image # <<>> /\ validate_image(a.image) # <<>>
        THEN [pc |-> "exit", code |-> 1]
        ELSE [pc |-> "run_tests", code |-> 0]
    ELSE IF a.wizard THEN [pc |-> "wizard", code |-> 0]
    ELSE IF a.case # None THEN [pc |-> "exit", code |-> 1]
    ELSE [pc |-> "exit", code |-> 2]

CliMain ==
    /\ entry = "cli.main" /\ pc = "start"
    /\ pc' = CliDispatch(args).pc
    /\ fault' = IF CliDispatch(args).pc = "exit"
                THEN SystemExit(CliDispatch(args).code) ELSE fault
    /\ UNCHANGED <<rate, entry, args, idx, results, pending, calls, offered,
                   retried, confirmed, files, runs, probeIn, probeOut>>

\* what a method of api_tests.LumaAPITester hands back
TesterOutcomes == {"success", "error", "raise"}

TesterEntry(name, t) == [test_name |-> name, status |-> t]

\* run_tests(api_key, image_path) l.48-79 and the sys.exit of l.137; an
\* exception of the tester reaches the handler of l.152
CliRunTests ==
    /\ entry = "cli.main" /\ pc = "run_tests"
    /\ \E t1 \in TesterOutcomes, t2 \in TesterOutcomes :
        LET first  == <<TesterEntry("test_text_to_image", t1)>>
            second == IF t1 = "raise" \/ args.image = <<>>
                         \/ validate_image(args.image) # <<>>
                      THEN <<>>
                      ELSE <<TesterEntry("test_image_reference", t2)>>
            all == first \o second
        IN /\ results' = all
           /\ fault' = SystemExit(
                 IF \A i \in DOMAIN all : all[i].status = "success"
                 THEN 0 ELSE 1)
    /\ pc' = "exit"
    /\ UNCHANGED <<rate, entry, args, idx, pending, calls, offered, retried,
                   confirmed, files, runs, probeIn, probeOut>>

----------------------------------------------------------------------------
(* Specifications *)

Fresh ==
    /\ idx = 1 /\ results = <<>> /\ pending = <<>> /\ calls = <<>>
    /\ offered = {} /\ retried = {} /\ confirmed = {}
    /\ rate = NoRate
    /\ files = NoFiles /\ fault = <<>>
    /\ runs = 0

InitWizard ==
    /\ entry = "wizard" /\ pc = "main"
    /\ args = [image_url |-> None, api_key |-> None, cancelled |-> None]
    /\ Fresh /\ probeIn = NoCall /\ probeOut = Pending

InitConfig ==
    /\ entry = "run_with_config" /\ pc = "start"
    /\ args \in ConfigArgs
    /\ Fresh /\ probeIn = NoCall /\ probeOut = Pending

InitRate ==
    /\ entry = "test_rate_limit" /\ pc = "loop"
    /\ \E n \in 0..MaxAttempts : args = [attempts |-> n]
    /\ Fresh /\ probeIn = NoCall /\ probeOut = Pending

InitLegacy ==
    /\ entry = "tests.main" /\ pc = "start"
    /\ args \in LegacyArgs
    /\ Fresh /\ probeIn = NoCall /\ probeOut = Pending

InitCli ==
    /\ entry = "cli.main" /\ pc = "start"
    /\ args \in CliArgs
    /\ Fresh /\ probeIn = NoCall /\ probeOut = Pending

Init == InitWizard \/ InitConfig \/ InitRate \/ InitLegacy \/ InitCli

Next ==
    \/ WizMain \/ WizProbe \/ WizRetry \/ WizDecline \/ WizSummary
    \/ WizAgain \/ WizQuit \/ WizCancel
    \/ CfgLoad \/ CfgProbe \/ CfgApiTests \/ CfgGeneration \/ CfgSave
    \/ CfgReturn
    \/ RateAttempt \/ RateReturn
    \/ LegLoad \/ LegRunDiagnostics
    \/ CliMain \/ CliRunTests

Spec == Init /\ [][Next]_vars

\* the program and its user keep taking steps; the user accepts "run another
\* test" / "try again" fewer than MaxRuns times
SpecLive == Spec /\ WF_vars(Next)

InitProbe ==
    /\ entry = "probe" /\ pc = "call" /\ args = [image_url |-> URL1]
    /\ Fresh /\ probeIn \in ProbeCalls /\ probeOut = Pending

NextProbe == ProbeCall

SpecProbe == InitProbe /\ [][NextProbe]_vars

----------------------------------------------------------------------------
(* Properties *)

\* the run is past its probes
WizardLoopDone ==
    entry = "wizard" /\ pc \in {"summary", "another", "try_again", "done"}

ConfigRunEnded ==
    /\ entry = "run_with_config" /\ pc \in {"raised", "returned"}
    /\ args.cfg # "unreadable" /\ ConfigImageUrl(args) # None

Invoked(i) == \E j \in DOMAIN calls : calls[j].probe = i

\* a retry is taking place in this step: the probe is invoked a second time
RetryStep ==
    /\ entry = "wizard" /\ pc = "confirm"
    /\ Len(calls') = Len(calls) + 1

\* C1: in a run with a resource URL (run_with_config, wizard run_tests) every
\* planned probe is invoked, whatever the failures of the probes before it.
C1_EveryPlannedProbeInvoked ==
    (WizardLoopDone \/ ConfigRunEnded) =>
        \A i \in 1..PlanLen : Invoked(i)

\* C2: after the probes of a run the results hold exactly one entry per
\* planned probe, in plan order.
C2_OneEntryPerProbeInOrder ==
    (WizardLoopDone \/ (entry = "run_with_config" /\ pc = "api"
                        /\ ConfigImageUrl(args) # None)) =>
        /\ Len(results) = PlanLen
        /\ \A i \in 1..Len(results) : results[i].test_name = ProbeName(i)

CredentialedNames ==
    {"API Authentication", "LUMA JSON Request", "Rate Limit Test",
     "Generation Tests"}

\* C3: a run without a credential records, for a credentialed probe, a result
\* with status skipped.
C3_CredentialedProbeSkipped ==
    (entry = "run_with_config" /\ pc = "returned"
     /\ ConfigApiKey(args) = None) =>
        \E i \in DOMAIN results :
            /\ results[i].test_name \in CredentialedNames
            /\ "status" \in DOMAIN results[i]
            /\ results[i].status = "skipped"

\* C4: every probe hands a result back to its caller for every behaviour of
\* the remote side: it neither raises nor returns None.
C4_ProbeAlwaysReturnsResult ==
    probeOut # Pending => probeOut.ret = "value"

\* C5: every entry of the results carries a test_name and a status that is
\* one of completed, failed, skipped.
C5_EveryResultHasStatus ==
    \A i \in DOMAIN results :
        /\ "test_name" \in DOMAIN results[i]
        /\ "status" \in DOMAIN results[i]
        /\ results[i].status \in {"completed", "failed", "skipped"}

IsFailed(result) == "status" \in DOMAIN result /\ result.status = "failed"

HasError(result) ==
    /\ "details" \in DOMAIN result
    /\ "error" \in DOMAIN result.details
    /\ result.details.error # <<>>

\* C6: in every state of a run, each result whose status is failed has
\* details.error present and non-empty.
C6_FailedHasError ==
    \A i \in DOMAIN results : IsFailed(results[i]) => HasError(results[i])

\* C6 witness: a probe's own failed result (timeout or request error) is in
\* the results of a run.
C6_Witness ==
    \E i \in DOMAIN results, j \in DOMAIN calls :
        /\ IsFailed(results[i])
        /\ calls[j].via \in {"Timeout", "RequestException"}
        /\ calls[j].out.val = results[i]

\* C7: in the wizard, the retry prompt follows a first invocation exactly
\* when the probe classified its failure as a timeout.
C7_RetryOfferedIffTimeout ==
    entry = "wizard" =>
        \A j \in DOMAIN calls :
            calls[j].attempt = 1 =>
                (j \in offered <=> calls[j].via = "Timeout")

\* C8: an accepted retry re-invokes the probe with a timeout strictly greater
\* than that of its first invocation.
C8_RetryTimeoutGreater ==
    \A j \in DOMAIN calls :
        calls[j].attempt = 2 =>
            \E i \in 1..(j - 1) :
                /\ calls[i].probe = calls[j].probe
                /\ calls[i].attempt = 1
                /\ calls[j].timeout > calls[i].timeout

\* C9: a retry leaves the length of the results and every element but the
\* retried probe's (the last) unchanged.
C9_RetryReplacesOneElement ==
    [][RetryStep =>
          /\ Len(results') = Len(results)
          /\ \A i \in 1..(Len(results) - 1) : results'[i] = results[i]]_vars

\* C10 as stated: when the retried probe fails again, the entry of that probe
\* still carries the error of the original attempt.
C10_OriginalErrorKept ==
    [][(RetryStep /\ calls'[Len(calls')].via # "completed") =>
          ErrorOf(results'[Len(results)]) = ErrorOf(results[Len(results)])]_vars

\* C10 amended: a retry that returns a result, failed or not, overwrites the
\* original entry with it; only a retry that raises leaves the original
\* entry, followed by a new failed entry carrying the exception text.
C10_RetryResultRecorded ==
    [][RetryStep =>
          LET o == calls'[Len(calls')].out IN
          IF o.ret = "raise"
          THEN results' = Append(results,
                                 ExceptionEntry(SequenceName(idx), o.text))
          ELSE results' = [results EXCEPT ![Len(results)] = o.val]]_vars

\* C10 witness: a retry returned a failed result whose error differs from
\* the first attempt's, and it is recorded.
C10_Witness ==
    \E j \in DOMAIN calls, k \in retried :
        /\ calls[j].attempt = 2
        /\ calls[j].via \in {"Timeout", "RequestException"}
        /\ results[k] = calls[j].out.val
        /\ \E i \in 1..(j - 1) :
              /\ calls[i].probe = calls[j].probe
              /\ ErrorOf(calls[i].out.val) # ErrorOf(results[k])

\* the j-th invocation of the run re-invokes a probe that ran before
Reinvoked(j) == \E k \in 1..(j - 1) : calls[k].probe = calls[j].probe

InvocationsOf(i) == {j \in DOMAIN calls : calls[j].probe = i}

\* C11: in the wizard a probe is re-invoked only right after the user
\* accepted the retry prompt shown for that probe's previous invocation; a
\* probe whose prompt was declined, or never shown, is invoked once.
C11_ReinvokedOnlyAfterConfirm ==
    entry = "wizard" =>
        /\ \A j \in DOMAIN calls :
              Reinvoked(j) =>
                  /\ j - 1 \in offered \cap confirmed
                  /\ calls[j - 1].probe = calls[j].probe
        /\ \A i \in 1..PlanLen :
              (InvocationsOf(i) \cap confirmed = {}) =>
                  Cardinality(InvocationsOf(i)) <= 1

\* C11 witness: in one run the prompt of one probe was declined and that
\* probe ran once, and another probe was re-invoked after its prompt was
\* accepted.
C11_Witness ==
    /\ entry = "wizard" /\ pc = "summary"
    /\ \E j \in offered \ confirmed :
          Cardinality(InvocationsOf(calls[j].probe)) = 1
    /\ \E j \in DOMAIN calls : Reinvoked(j) /\ j - 1 \in confirmed

\* C12: within one run of the wizard no probe is invoked more than twice.
C12_AtMostOneRetry ==
    entry = "wizard" =>
        \A i \in 1..PlanLen : Cardinality(InvocationsOf(i)) <= 2

\* C12 witness: a retried probe failed with a timeout error again, no
\* further prompt was shown for it, and the loop went on.
C12_Witness ==
    /\ entry = "wizard" /\ pc \in {"loop", "summary"}
    /\ \E j \in DOMAIN calls :
          /\ Reinvoked(j)
          /\ calls[j].out.ret = "value"
          /\ IsFailed(calls[j].out.val)
          /\ RetryEligible(calls[j].out.val)
          /\ j \notin offered
          /\ Cardinality(InvocationsOf(calls[j].probe)) = 2

\* a call of the probe named p has returned
Called(p) == entry = "probe" /\ probeIn.probe = p /\ probeOut # Pending

\* requests.get was called: the probe went past the DNS resolution
GetIssued(o) == o.via \in {"get", "except"}

\* C13: Public Access issues its GET only after the hostname resolved; when
\* the resolution fails it returns without the GET, with dns_resolved and
\* reachable both false.
C13_NoGetAfterDnsFailure ==
    Called("test_public_access") =>
        /\ ~probeIn.flag =>
              /\ ~GetIssued(probeOut)
              /\ probeOut.ret = "value"
              /\ probeOut.val.dns_resolved = FALSE
              /\ probeOut.val.reachable = FALSE
        /\ GetIssued(probeOut) =>
              probeIn.flag /\ probeOut.val.dns_resolved

\* C13 witness: the resolution failed although the server would have
\* answered 200, and the probe returned.
C13_Witness ==
    /\ Called("test_public_access")
    /\ ~probeIn.flag
    /\ probeIn.resp.exc = "none" /\ probeIn.resp.status = 200
    /\ probeOut.via = "dns"

\* C14: Public Access reports reachable exactly when the hostname resolved
\* and the GET was answered with a status from 200 to 299.
C14_ReachableIff2xx ==
    Called("test_public_access") =>
        (probeOut.val.reachable <=>
            /\ probeIn.flag
            /\ probeIn.resp.exc = "none"
            /\ probeIn.resp.status \in 200..299)

\* C15: when Image Validity, in either implementation, fetched the resource
\* and the body does not match the signature, the result has status
\* completed and carries the signature flag false.
C15_MismatchCompletes ==
    \A p \in {"test_image_validity", "tests.test_image_validity"} :
        (/\ Called(p)
         /\ probeIn.resp.exc = "none" /\ probeIn.resp.status < 400
         /\ ~StartsWithSOI3(probeIn.resp.body)
         /\ ~HasSOIAndEOI(probeIn.resp.body)) =>
            /\ probeOut.ret = "value"
            /\ "status" \in DOMAIN probeOut.val
            /\ probeOut.val.status = "completed"
            /\ probeOut.val.details.is_jpeg_signature = FALSE

\* C16: for every fetched body both implementations of Image Validity give
\* the same flag, and the flag is true exactly when the body begins with
\* FF D8 and ends with FF D9.
C16_SameFlagSOIAndEOI ==
    (/\ entry = "probe" /\ probeOut # Pending
     /\ probeIn.probe \in {"test_image_validity", "tests.test_image_validity"}
     /\ probeIn.resp.exc = "none" /\ probeIn.resp.status < 400) =>
        LET body == probeIn.resp.body
            n == Len(body)
            marked == /\ n >= 2
                      /\ body[1] = 255 /\ body[2] = 216
                      /\ body[n - 1] = 255 /\ body[n] = 217
            d == test_image_validity(URL1, DefaultTimeout, probeIn.resp)
            t == tests_test_image_validity(URL1, probeIn.resp)
        IN /\ d.val.details.is_jpeg_signature = marked
           /\ t.val.is_jpeg_signature = marked

\* C17: test_rate_limit called with attempts = N issues the N requests one
\* after the other and appends one entry per request: entry i is numbered i
\* and carries the status code request i received, or no status code and the
\* error text when the request raised; the probe returns a result holding
\* exactly these N entries, and that result is not a failed one.
C17_OneEntryPerAttempt ==
    entry = "test_rate_limit" =>
        /\ Len(rate.responses) = Len(rate.seen)
        /\ pc = "loop" => Len(rate.responses) = idx - 1
        /\ \A i \in DOMAIN rate.responses :
              /\ rate.responses[i].attempt = i
              /\ rate.responses[i].status_code =
                    IF rate.seen[i].exc = "none"
                    THEN <<rate.seen[i].status>> ELSE <<>>
              /\ rate.seen[i].exc # "none" =>
                    rate.responses[i].body =
                        <<"Connection/Request", "Error:">>
                        \o ExcText(rate.seen[i].exc)
        /\ pc = "returned" =>
              /\ probeOut.ret = "value"
              /\ probeOut.val.responses = rate.responses
              /\ Len(probeOut.val.responses) = args.attempts
              /\ ~IsFailed(probeOut.val)

\* C17 witness: a call with at least three attempts returned after the third
\* request was answered 429, an earlier request raised, and a later request
\* was answered.
C17_Witness ==
    /\ entry = "test_rate_limit" /\ pc = "returned"
    /\ args.attempts >= 4
    /\ rate.seen[3].status = 429
    /\ \E i \in 1..2 : rate.seen[i].exc = "ConnectionError"
    /\ \E i \in 4..args.attempts : rate.seen[i].status = 201

\* the names of the findings a result carries in the structured file: the
\* keys json.dump writes for it, apart from its name and status
FindingKeys(result) ==
    (DOMAIN result \ {"test_name", "status", "details"})
    \cup (IF "details" \in DOMAIN result THEN DOMAIN result.details ELSE {})

\* the keys that head the lines of a section of the text file
RenderedKeys(section) ==
    IF "lines" \in DOMAIN section THEN DOMAIN section.lines ELSE {}

\* C18: the text file written by run_with_config has one section per result
\* of the structured file, in the same order, and the section of a result
\* has a line for every finding the structured file holds for it.
C18_TextCarriesEveryFinding ==
    (entry = "run_with_config" /\ files.written) =>
        /\ Len(files.text) = Len(files.json.results)
        /\ \A i \in DOMAIN files.text :
              /\ files.text[i].test = files.json.results[i].test_name
              /\ FindingKeys(files.json.results[i])
                    \subseteq RenderedKeys(files.text[i])

\* C19 as stated: the sequence run_with_config returns equals the sequence
\* it persisted.
C19_ReturnedEqualsPersisted ==
    (entry = "run_with_config" /\ pc = "returned") =>
        results = files.json.results

\* C19 amended: after the files are written the results are left alone but
\* for one entry, "Output Files", appended last: the returned sequence is
\* the persisted one followed by that entry.
C19_ReturnedIsPersistedPlusOutputFiles ==
    (entry = "run_with_config" /\ files.written) =>
        /\ pc \in {"saved", "returned"}
        /\ pc = "saved" => results = files.json.results
        /\ pc = "returned" =>
              results = Append(files.json.results, OutputFilesEntry)

\* C19 witness: a run that invoked the five probes has written its files and
\* returned.
C19_Witness ==
    /\ entry = "run_with_config" /\ pc = "returned"
    /\ files.written
    /\ Len(files.json.results) >= PlanLen
    /\ results[Len(results)] = OutputFilesEntry

\* C20: the legacy runner started with a case identifier, an existing case
\* file and a resource URL ends with its report written.
C20_CaseReportWritten ==
    (/\ entry = "tests.main" /\ pc \notin {"start", "run"}
     /\ args.case # None /\ args.case_file /\ args.env_url # None) =>
        /\ fault = <<>>
        /\ files.written

\* C21: a run without a resource URL invokes no probe, records no result,
\* writes no file and ends with a fault handed to the caller, in
\* run_with_config as in the legacy runner.
C21_NoUrlAborts ==
    /\ (/\ entry = "run_with_config" /\ pc # "start"
        /\ args.cfg # "unreadable" /\ ConfigImageUrl(args) = None) =>
            /\ calls = <<>> /\ results = <<>>
            /\ ~files.written
            /\ pc = "raised" /\ fault # <<>>
    /\ (entry = "tests.main" /\ pc # "start" /\ args.env_url = None) =>
            /\ results = <<>>
            /\ ~files.written
            /\ pc = "exit" /\ fault # <<>>

\* the arguments of two calls of run_with_config agree (the config file
\* named by config_path included); the environment may differ
SameArguments(a, b) ==
    /\ a.case_id = b.case_id /\ a.image_url = b.image_url
    /\ a.cfg = b.cfg /\ a.cfg_url = b.cfg_url /\ a.cfg_key = b.cfg_key

\* C22: whether run_with_config runs the basic probes, and against which
\* URL, is the same for every call with the same arguments, whatever the
\* TEST_IMAGE_URL of the environment.
C22_EnvironmentHasNoInfluence ==
    (entry = "run_with_config" /\ pc \in {"basic", "api"}) =>
        \A b \in ConfigArgs :
            SameArguments(args, b) =>
                ConfigImageUrl(b) = ConfigImageUrl(args)

\* C23: every call of a probe returns, also when the server never answers.
C23_EveryProbeReturns ==
    (entry = "probe" /\ probeOut # Pending) => probeOut.ret # "never"

WellFormedKey(k) == k # <<>> /\ k[1].prefix = "luma_" /\ k[1].length >= 32

\* --test is accepted: a well-formed key, and a valid image if one is given
CliAccepted(a) ==
    /\ WellFormedKey(CliApiKey(a))
    /\ a.image # <<>> => validate_image(a.image) = <<>>

\* C29: with --test, run_tests is called and an API test runs only when the
\* key is well-formed and the image, if given, validates; otherwise the
\* process exits with code 1 and no API test has run.
C29_TestsOnlyWhenAccepted ==
    (entry = "cli.main" /\ args.test) =>
        /\ (pc = "run_tests" \/ results # <<>>) => CliAccepted(args)
        /\ (pc # "start" /\ ~CliAccepted(args)) =>
              /\ pc = "exit" /\ fault = SystemExit(1)
              /\ results = <<>>

\* C29 witness: --test with a well-formed key was refused for its image,
\* and no API test ran.
C29_Witness ==
    /\ entry = "cli.main" /\ args.test /\ pc = "exit"
    /\ WellFormedKey(CliApiKey(args))
    /\ args.image = HugeImage
    /\ results = <<>>

\* C26: the wizard flow ends: a run invokes at most the five probes of the
\* sequence and one retry for each of the two retryable ones, and once the
\* user stops accepting the "run another test" / "try again" prompts the
\* wizard is done.
C26_WizardTerminates ==
    /\ [](entry = "wizard" => Len(calls) <= PlanLen + 2)
    /\ (entry = "wizard") ~> (pc = "done")

\* C26 witness: the wizard is done after a second run in which both
\* retryable probes were retried.
C26_Witness ==
    /\ entry = "wizard" /\ pc = "done"
    /\ runs >= 2
    /\ Len(calls) = PlanLen + 2

\* C27: after the last probe of the sequence the summary is rendered for
\* every result and the "run another test" prompt comes up, not the
\* "Error ... try again" prompt.
C27_SummaryRendered ==
    (/\ entry = "wizard" /\ pc \in {"another", "try_again"}
     /\ idx > PlanLen /\ Len(calls) >= PlanLen) =>
        /\ SummaryRenders
        /\ pc = "another"

\* C28: after the user cancelled a prompt of main, no probe is invoked and
\* main has returned.
C28_CancelReturns ==
    (entry = "wizard" /\ args.cancelled # None) =>
        /\ calls = <<>>
        /\ pc = "done"

\* C30: once main has built its configuration, run_diagnostics hands back
\* the results of the enabled probes, Public Access first, and main goes on
\* to save_results: the run does not end in an exception.
C30_DiagnosticsCollected ==
    (entry = "tests.main" /\ pc \notin {"start", "run", "exit"}) =>
        /\ pc # "raised" /\ fault = <<>>
        /\ Len(results) >= PlanLen
        /\ results[1].test_name = "Public Access"

====
